---- MODULE Spec2Model ----
(***************************************************************************)
(* Model of the NANA backend request layer: the /upload-stream SSE         *)
(* pipeline (process_pdf_with_progress), the plain /upload handler and the *)
(* three template handlers (/notes, /inline-command, /integrate-emphasis), *)
(* together with the keyword binding of DebugLogger.log_interaction that   *)
(* every one of them calls.                                                *)
(***************************************************************************)
EXTENDS Integers, Sequences, FiniteSets, TLC

\* ------------------------------------------------------------------ bounds
MaxReq == 1
MaxClock == 1
MaxCalls == 3

Req == 1..MaxReq

\* ------------------------------------------------------- optional values
\* Python's None is the empty tuple, a present value x is <<x>>.
NoneV == <<>>
Some(x) == <<x>>
IsNone(o) == o = <<>>
Val(o) == o[1]

\* ------------------------------------------------------------ characters
\* str.lower() on the characters that occur in the modelled file names.
LowerChar(c) ==
  CASE c = "P" -> "p"
    [] c = "D" -> "d"
    [] c = "F" -> "f"
    [] c = "N" -> "n"
    [] OTHER -> c

Lower(s) == [i \in 1..Len(s) |-> LowerChar(s[i])]

EndsWith(s, suf) ==
  /\ Len(s) >= Len(suf)
  /\ \A i \in 1..Len(suf) : s[Len(s) - Len(suf) + i] = suf[i]

PdfSuffix == <<".", "p", "d", "f">>

\* upload_stream.py:154 / upload.py:93
\*   not file.filename or not file.filename.lower().endswith(".pdf")
AcceptsNameContains(fn) ==
  /\ ~IsNone(fn)
  /\ \E i \in 1..Len(Val(fn)) :
       EndsWith(SubSeq(Lower(Val(fn)), 1, i), PdfSuffix)

AcceptsName(fn) ==
  /\ ~IsNone(fn)
  /\ Len(Val(fn)) > 0
  /\ EndsWith(Lower(Val(fn)), PdfSuffix)

\* upload_stream.py:167 / upload.py:103   len(pdf_bytes) > 50 * 1024 * 1024
MaxUploadBytes == 50 * 1024 * 1024

TooLargeInclusive(n) == n >= MaxUploadBytes

TooLarge(n) == n > MaxUploadBytes

\* ------------------------------------------------------------ input sets
FileNames ==
  { NoneV,
    Some(<<"n", ".", "p", "d", "f">>),
    Some(<<"N", ".", "P", "D", "F">>),
    Some(<<"n", ".", "p", "d", "f", ".", "t">>),
    Some(<<"p", "d", "f">>) }

FileSizes == {MaxUploadBytes, MaxUploadBytes + 1}

\* the user_profile form field: absent, not JSON / not a UserProfile, valid
ProfileFields == {"absent", "malformed", "valid"}

\* what client.models.generate_content does: raise, or return a response
\* whose .parsed is the requested schema type, None, or some other value
AiOutcomes == {"raise", "parsed", "none", "other"}

\* session ids a client echoes on later per-page requests (-1: none sent)
NoSession == 0 - 1
ClientSessions == {NoSession, 0}

CommandTypes == {"elaborate", "simplify", "analogy"}

\* inline_commands.py:32-49, each fragment by its first sentence
ANALOGY_INSTRUCTIONS ==
  [k \in {"Software Engineering", "Data Science/ML", "Statistics",
          "Domain Novice"} |->
     CASE k = "Software Engineering" ->
            "Explain this concept using a programming analogy."
       [] k = "Data Science/ML" ->
            "Explain this concept using a data science analogy."
       [] k = "Statistics" ->
            "Explain this concept using a statistical analogy."
       [] OTHER ->
            "Explain this concept using an everyday real-world analogy."]

\* values of user_profile.prior_expertise: a key of the table, and a value
\* that is no key (schemas.py:19 accepts any string)
Expertises == {"Software Engineering", "Novice"}

\* ANALOGY_INSTRUCTIONS.get(expertise) without a default, formatted as text
AnalogyInstructionNoDefault(expertise) ==
  IF expertise \in DOMAIN ANALOGY_INSTRUCTIONS
  THEN ANALOGY_INSTRUCTIONS[expertise]
  ELSE "None"

\* inline_commands.py:92-95
AnalogyInstruction(expertise) ==
  IF expertise \in DOMAIN ANALOGY_INSTRUCTIONS
  THEN ANALOGY_INSTRUCTIONS[expertise]
  ELSE ANALOGY_INSTRUCTIONS["Domain Novice"]

\* inline_commands.py:81-95, the analogy_instruction entry of format_kwargs
AnalogyKwarg(cmd, expertise) ==
  IF cmd = "analogy" THEN Some(AnalogyInstruction(expertise)) ELSE NoneV

TemplateStates == {"ok", "missing_file", "missing_key"}

\* the pages of a well-formed extraction result
ExtractedPages == <<1, 2>>


\* ------------------------------------------------------------- messages
\* f"{text}{arg}": a fixed text and the interpolated exception message
Msg(text, arg) == [text |-> text, arg |-> arg]

\* str(e) of the exceptions the handlers can see
AiErrorText == "ai service error"
TypeErrorText == "log_interaction() got an unexpected keyword argument 'session_id'"
AttributeErrorText == "object has no attribute 'pages'"

\* config.py:25
GeminiModel == "gemini-3-flash-preview"

\* ------------------------------------------------- DebugLogger.log_interaction
\* debug.py:32-41, the parameters a call may bind by keyword
LogInteractionParams ==
  {"name", "prompt", "response", "start_time", "end_time", "error", "group_id"}

\* the keywords every router passes: the success call and the failure call
SuccessKw == {"name", "prompt", "response", "start_time", "end_time", "session_id"}
ErrorKw == SuccessKw \cup {"error"}

\* Python binds the keywords before the body runs: a keyword that is no
\* parameter raises TypeError and nothing is written.
LogRaises(kw) == ~(kw \subseteq LogInteractionParams)

\* the record a call that binds leaves in the debug log: grouped under
\* group_id when that keyword was passed (debug.py:116), and no caller passes it
LogRecord(name, kw, sid, err) ==
  [name |-> name,
   group |-> IF "group_id" \in kw \/ "session_id" \in kw THEN sid ELSE NoSession,
   error |-> err]

\* ------------------------------------------------------------- requests
NoSize == 0 - 1

\* what the AI service will do with the calls of one upload: known to the
\* service (or to a test's mock) before the calls are made
NoPlan == [extraction |-> "unused", overview |-> "unused"]

AiPlans(withOverview) ==
  {p \in [extraction : AiOutcomes,
          overview : IF withOverview THEN AiOutcomes \cup {"unused"}
                     ELSE {"unused"}] :
     p.overview = "unused" <=> (~withOverview \/ p.extraction # "parsed")}

NoResponse == [status |-> 0, detail |-> Msg("", ""), body |-> NoneV]

IdleReq ==
  [kind |-> "idle", pc |-> "idle", filename |-> NoneV, size |-> NoSize,
   user_profile_json |-> "unread", parsed_profile |-> FALSE,
   session_id |-> NoSession, command_type |-> "", events |-> <<>>,
   aiCalls |-> <<>>, logCalls |-> 0, logged |-> <<>>, pages |-> NoneV,
   escaped |-> "", ai |-> NoPlan, response |-> NoResponse,
   prior_expertise |-> "", analogy_instruction |-> NoneV,
   template |-> "unread",
   x_api_key |-> NoneV, google_api_key |-> "", api_key |-> "",
   error_msg |-> <<>>, thread |-> ""]

\* schemas.py:128-137
UploadProgressEvent(step, message, percent, data) ==
  [step |-> step, message |-> message, progress_percent |-> percent,
   data |-> data]

AiCall(purpose, schema, outcome) ==
  [purpose |-> purpose, model |-> GeminiModel, response_schema |-> schema,
   outcome |-> outcome]

\* hashlib.sha256(pdf_bytes).hexdigest()[:16], the bytes stood for by their length
ContentHash(size) == <<"sha256", size>>

Yield(s, ev) == [s EXCEPT !.events = Append(@, ev)]

\* the generator yields a terminal event and returns
Finish(s, ev) == [Yield(s, ev) EXCEPT !.pc = "done"]

\* an exception leaves the generator or the handler
Escape(s, exc) == [s EXCEPT !.pc = "crashed", !.escaped = exc]

\* ErrorEvent with the message repeated in the data field
ErrorEventWithData(message) ==
  UploadProgressEvent("error", message, 0, Some([detail |-> message]))

\* upload_stream.py:155-162, 168-175, 243-252, 266-275
ErrorEvent(message) == UploadProgressEvent("error", message, 0, NoneV)

\* --------------------------------------- the try/except around an AI call
\* try: response = generate_content(...); log_interaction(..., session_id=...)
\* except Exception as e: log_interaction(..., error=str(e), session_id=...)
\* The AI call itself is already in s.aiCalls; `outcome` is what it did.
\* how = "ok": the try body finished; "caught": the except body finished
\* with str(e) = e; "escaped": the except body itself raised.
TryLogged(s, name, outcome) ==
  LET aiRaised == outcome = "raise"
      s1 == IF aiRaised THEN s ELSE [s EXCEPT !.logCalls = @ + 1]
      e == IF aiRaised THEN AiErrorText ELSE TypeErrorText
  IN IF ~aiRaised /\ ~LogRaises(SuccessKw)
     THEN [s |-> [s1 EXCEPT !.logged =
                    Append(@, LogRecord(name, SuccessKw, s.session_id, ""))],
           how |-> "ok", e |-> ""]
     ELSE LET s2 == [s1 EXCEPT !.logCalls = @ + 1]
          IN IF LogRaises(ErrorKw)
             THEN [s |-> Escape(s2, "TypeError"), how |-> "escaped",
                   e |-> TypeErrorText]
             ELSE [s |-> [s2 EXCEPT !.logged =
                            Append(@, LogRecord(name, ErrorKw, s.session_id, e))],
                   how |-> "caught", e |-> e]

\* ------------------------------------------- process_pdf_with_progress
\* upload_stream.py:146-152, the first resumption of the generator
StreamBegin(fn) ==
  Yield([IdleReq EXCEPT !.kind = "upload_stream", !.pc = "validating",
                        !.filename = fn],
        UploadProgressEvent("validating", Msg("Validating PDF file...", ""),
                            5, NoneV))

\* StreamValidate with a malformed profile field answered by an error event
StreamValidateStrictProfile(s, sz, pf, t) ==
  IF ~AcceptsName(s.filename)
  THEN Finish(s, ErrorEvent(Msg("Only PDF files are accepted", "")))
  ELSE IF TooLarge(sz)
  THEN Finish([s EXCEPT !.size = sz],
              ErrorEvent(Msg("PDF exceeds 50MB limit. Please upload a smaller file.", "")))
  ELSE IF pf = "malformed"
  THEN Finish([s EXCEPT !.size = sz, !.user_profile_json = pf],
              ErrorEvent(Msg("Invalid user profile", "")))
  ELSE Yield([s EXCEPT !.pc = "extracting", !.size = sz,
                       !.user_profile_json = pf,
                       !.parsed_profile = (pf = "valid"),
                       !.session_id = t],
             UploadProgressEvent("extracting",
                                 Msg("Extracting text with Gemini AI...", ""),
                                 15, NoneV))

\* upload_stream.py:154-198, resumed after the validating event.
\* sz: what file.read() returns; pf: the user_profile form field; t: now()
StreamValidate(s, sz, pf, t) ==
  IF ~AcceptsName(s.filename)
  THEN Finish(s, ErrorEvent(Msg("Only PDF files are accepted", "")))
  ELSE IF TooLarge(sz)
  THEN Finish([s EXCEPT !.size = sz],
              ErrorEvent(Msg("PDF exceeds 50MB limit. Please upload a smaller file.", "")))
  ELSE Yield([s EXCEPT !.pc = "extracting", !.size = sz,
                       !.user_profile_json = pf,
                       !.parsed_profile = (pf = "valid"),
                       !.session_id = t],
             UploadProgressEvent("extracting",
                                 Msg("Extracting text with Gemini AI...", ""),
                                 15, NoneV))

\* upload_stream.py:200-222, resumed after the extracting event: the call is
\* handed to a worker thread and the coroutine waits for it
\* StreamDispatchExtract with sync_extract() called in the coroutine itself
StreamDispatchExtractInline(s, plan) ==
  [s EXCEPT !.pc = "await_extract", !.ai = plan, !.thread = "event_loop",
            !.aiCalls = Append(@, AiCall("pdf_extraction",
                                         "PDFExtractionResponse", "pending"))]

\* upload_stream.py:200-222, resumed after the extracting event: the call is
\* handed to a worker thread (asyncio.to_thread) and the coroutine waits
StreamDispatchExtract(s, plan) ==
  [s EXCEPT !.pc = "await_extract", !.ai = plan, !.thread = "worker",
            !.aiCalls = Append(@, AiCall("pdf_extraction",
                                         "PDFExtractionResponse", "pending"))]

\* the worker thread's call has ended with `outcome`
SetOutcome(s, outcome) ==
  [s EXCEPT !.aiCalls[Len(s.aiCalls)].outcome = outcome, !.thread = ""]

\* StreamAfterExtract with the extraction call made again after it raised
StreamAfterExtractRetry(s, outcome) ==
  LET t == TryLogged(SetOutcome(s, outcome), "pdf_extraction", outcome)
  IN CASE outcome = "raise" ->
            [SetOutcome(s, outcome) EXCEPT
               !.aiCalls = Append(@, AiCall("pdf_extraction",
                                            "PDFExtractionResponse", "pending"))]
       [] t.how = "ok" ->
            Yield([t.s EXCEPT !.pc = "parsing"],
                  UploadProgressEvent("parsing",
                                      Msg("Parsing extracted content...", ""),
                                      75, NoneV))
       [] OTHER -> t.s

\* upload_stream.py:221-262, the coroutine resumes with the call's outcome
StreamAfterExtract(s, outcome) ==
  LET t == TryLogged(SetOutcome(s, outcome), "pdf_extraction", outcome)
  IN CASE t.how = "ok" ->
            Yield([t.s EXCEPT !.pc = "parsing"],
                  UploadProgressEvent("parsing",
                                      Msg("Parsing extracted content...", ""),
                                      75, NoneV))
       [] t.how = "caught" ->
            Finish(t.s, ErrorEvent(Msg("Gemini API error: ", t.e)))
       [] OTHER -> t.s

\* upload_stream.py:296-313
StreamComplete(s, overview) ==
  Finish(s,
         UploadProgressEvent("complete", Msg("Upload complete!", ""), 100,
           Some([original_filename |-> Val(s.filename),
                 total_pages |-> Len(Val(s.pages)),
                 pages |-> Val(s.pages),
                 session_id |-> s.session_id,
                 content_hash |-> ContentHash(s.size),
                 overview |-> overview])))

\* upload_stream.py:264-286 (and 296-313 when no profile was parsed),
\* resumed after the parsing event
StreamParse(s) ==
  LET outcome == s.aiCalls[Len(s.aiCalls)].outcome
  IN IF outcome # "parsed"
     THEN Finish(s, ErrorEvent(Msg("Failed to parse Gemini response: ",
                                   AttributeErrorText)))
     ELSE LET s1 == [s EXCEPT !.pages = Some(ExtractedPages)]
          IN IF s1.parsed_profile
             THEN Yield([s1 EXCEPT !.pc = "generating_overview"],
                        UploadProgressEvent("generating_overview",
                          Msg("Generating document overview...", ""), 80, NoneV))
             ELSE StreamComplete(s1, NoneV)

\* upload_stream.py:86-113, resumed after the generating_overview event: the
\* template is read and filled outside the try, then the call goes to a thread
StreamDispatchOverview(s, tmpl) ==
  CASE tmpl = "missing_file" -> Escape(s, "FileNotFoundError")
    [] tmpl = "missing_key" -> Escape(s, "KeyError")
    [] OTHER ->
         [s EXCEPT !.pc = "await_overview", !.thread = "worker",
                   !.aiCalls = Append(@, AiCall("document_overview",
                                                "DocumentOverview", "pending"))]

\* upload_stream.py:112-134 and 296-313: ParsedPDF validates its overview
\* field, a value that is neither None nor a DocumentOverview is refused
StreamAfterOverview(s, outcome) ==
  LET t == TryLogged(SetOutcome(s, outcome), "document_overview", outcome)
  IN CASE t.how = "escaped" -> t.s
       [] t.how = "caught" -> StreamComplete(t.s, NoneV)
       [] outcome = "parsed" -> StreamComplete(t.s, Some("DocumentOverview"))
       [] outcome = "none" -> StreamComplete(t.s, NoneV)
       [] OTHER -> Escape(t.s, "ValidationError")

\* one resumption of the generator by the streaming response
ResumeGenerator(s, sz, pf, tmpl, plan, t) ==
  CASE s.pc = "validating" -> StreamValidate(s, sz, pf, t)
    [] s.pc = "extracting" -> StreamDispatchExtract(s, plan)
    [] s.pc = "parsing" -> StreamParse(s)
    [] s.pc = "generating_overview" -> StreamDispatchOverview(s, tmpl)
    [] OTHER -> s

\* StreamCancel with the call in flight stopped as well
StreamCancelStopsCall(s) ==
  [SetOutcome(s, "cancelled") EXCEPT !.pc = "cancelled"]

\* the client has gone while the coroutine waits in `await
\* asyncio.to_thread(...)` (upload_stream.py:222, 102-113): the streaming
\* response cancels the generator; CancelledError is no Exception, so no
\* except branch runs and nothing more is yielded.  The thread is not told.
StreamCancel(s) == [s EXCEPT !.pc = "cancelled"]

\* the worker thread of a cancelled stream ends its call; nobody awaits it
AbandonedCallEnds(s) ==
  SetOutcome(s, IF s.aiCalls[Len(s.aiCalls)].purpose = "pdf_extraction"
                THEN s.ai.extraction ELSE s.ai.overview)

\* the coroutine resumes when asyncio.to_thread delivers the call's outcome
ResumeFromThread(s) ==
  CASE s.pc = "await_extract" -> StreamAfterExtract(s, s.ai.extraction)
    [] s.pc = "await_overview" -> StreamAfterOverview(s, s.ai.overview)
    [] OTHER -> s

\* ------------------------------------------------------ HTTP handlers
HttpResponse(s, status, detail, body) ==
  [s EXCEPT !.pc = "done",
            !.response = [status |-> status, detail |-> detail, body |-> body]]

\* raise HTTPException(status_code=status, detail=detail)
HttpError(s, status, detail) == HttpResponse(s, status, detail, NoneV)

\* the value of response.parsed when the AI returned the requested schema
ParsedValue(schema) ==
  CASE schema = "NotesResponse" ->
         [markdown |-> "# notes", topic_labels |-> <<"topic">>,
          page_references |-> <<1, 2>>]
    [] schema = "InlineCommandResponse" ->
         [content |-> "transformed", command_type |-> "elaborate"]
    [] OTHER -> [pages |-> ExtractedPages]

\* HandlerSkeleton with template.format moved inside the try block of the
\* AI call, so that a missing key is handled the way an AI failure is
HandlerSkeletonFormatsInTry(s0, name, schema, tmpl, outcome, result) ==
  LET s == [s0 EXCEPT !.template = tmpl]
  IN
  CASE tmpl = "missing_file" ->
         HttpError(s, 500, Msg("Prompt file not found: ", name))
    [] OTHER ->
         LET s1 == IF tmpl = "missing_key" THEN s
                   ELSE [s EXCEPT !.aiCalls =
                           Append(@, AiCall(name, schema, outcome))]
             t == TryLogged(s1, name,
                            IF tmpl = "missing_key" THEN "raise" ELSE outcome)
         IN CASE t.how = "escaped" -> t.s
              [] t.how = "caught" ->
                   HttpError(t.s, 500, Msg("Gemini API error: ", t.e))
              [] outcome # "parsed" ->
                   HttpError(t.s, 500,
                     Msg("Gemini response did not match expected schema", ""))
              [] OTHER ->
                   HttpResponse(t.s, 200, Msg("", ""), Some(result))

\* the skeleton shared by generate_notes (notes.py:73-180),
\* execute_inline_command (inline_commands.py:75-148) and integrate_emphasis
\* (emphasis.py:48-120): load and fill the template, call the AI once, log,
\* check isinstance(parsed, schema), return.  `result` is the value of the
\* handler's return expression when parsed is ParsedValue(schema).
HandlerSkeleton(s0, name, schema, tmpl, outcome, result) ==
  LET s == [s0 EXCEPT !.template = tmpl]
  IN
  CASE tmpl = "missing_file" ->
         HttpError(s, 500, Msg("Prompt file not found: ", name))
    [] tmpl = "missing_key" ->
         HttpError(s, 500, Msg("Prompt formatting error: Missing key ", "'k'"))
    [] OTHER ->
         LET s1 == [s EXCEPT !.aiCalls = Append(@, AiCall(name, schema, outcome))]
             t == TryLogged(s1, name, outcome)
         IN CASE t.how = "escaped" -> t.s
              [] t.how = "caught" ->
                   HttpError(t.s, 500, Msg("Gemini API error: ", t.e))
              [] outcome # "parsed" ->
                   HttpError(t.s, 500,
                     Msg("Gemini response did not match expected schema", ""))
              [] OTHER ->
                   HttpResponse(t.s, 200, Msg("", ""), Some(result))

Request(kind, sid) == [IdleReq EXCEPT !.kind = kind, !.session_id = sid]

\* notes.py:64-180
generate_notes(sid, tmpl, outcome) ==
  LET parsed == ParsedValue("NotesResponse")
  IN HandlerSkeleton(Request("notes", sid), "notes_generation",
                     "NotesResponse", tmpl, outcome, parsed)

\* emphasis.py:36-120
integrate_emphasis(sid, tmpl, outcome) ==
  LET parsed == ParsedValue("NotesResponse")
  IN HandlerSkeleton(Request("integrate_emphasis", sid), "integrate_emphasis",
                     "NotesResponse", tmpl, outcome, parsed)

\* inline_commands.py:64-148
execute_inline_command(cmd, expertise, sid, tmpl, outcome) ==
  LET parsed == ParsedValue("InlineCommandResponse")
      s0 == [Request("inline_command", sid) EXCEPT
               !.command_type = cmd, !.prior_expertise = expertise]
      s1 == IF tmpl = "missing_file" THEN s0
            ELSE [s0 EXCEPT !.analogy_instruction = AnalogyKwarg(cmd, expertise)]
  IN HandlerSkeleton(s1, "inline_command", "InlineCommandResponse", tmpl,
                     outcome,
                     [content |-> parsed.content, command_type |-> cmd])

\* upload.py:81-187
upload_and_parse_pdf(fn, sz, t, outcome) ==
  LET s0 == [IdleReq EXCEPT !.kind = "upload", !.filename = fn]
  IN IF ~AcceptsName(fn)
     THEN HttpError(s0, 400, Msg("Only PDF files are accepted", ""))
     ELSE IF TooLarge(sz)
     THEN HttpError([s0 EXCEPT !.size = sz], 400,
            Msg("PDF exceeds 50MB limit. Please upload a smaller file.", ""))
     ELSE
       LET s1 == [s0 EXCEPT !.size = sz, !.session_id = t,
                    !.aiCalls = Append(@, AiCall("pdf_extraction",
                                   "PDFExtractionResponse", outcome))]
           tr == TryLogged(s1, "pdf_extraction", outcome)
       IN CASE tr.how = "escaped" -> tr.s
            [] tr.how = "caught" ->
                 HttpError(tr.s, 500, Msg("Gemini API error: ", tr.e))
            [] outcome # "parsed" ->
                 HttpError(tr.s, 500,
                   Msg("Failed to parse Gemini response: ", AttributeErrorText))
            [] OTHER ->
                 HttpResponse([tr.s EXCEPT !.pages = Some(ExtractedPages)],
                   200, Msg("", ""),
                   Some([original_filename |-> Val(fn),
                         total_pages |-> Len(ExtractedPages),
                         pages |-> ExtractedPages,
                         session_id |-> t,
                         content_hash |-> ContentHash(sz)]))

\* ----------------------------------------------- the client dependency
\* values of the X-API-Key header: absent, empty, a key
HeaderKeys == {NoneV, Some(""), Some("hdr-key")}

\* values of settings.google_api_key (config.py:24): unset, a key
ConfiguredKeys == {"", "env-key"}

\* Python's `not api_key` for an optional string
Falsy(o) == IsNone(o) \/ Val(o) = ""

\* get_gemini_client with the configured key tried before the header
get_gemini_client_env_first(x_api_key, google_api_key) ==
  LET s == [IdleReq EXCEPT !.kind = "request", !.x_api_key = x_api_key,
                           !.google_api_key = google_api_key]
      api_key == IF google_api_key # "" THEN google_api_key
                 ELSE IF Falsy(x_api_key) THEN "" ELSE Val(x_api_key)
  IN IF api_key = ""
     THEN HttpError(s, 401,
            Msg("API key required. Please provide your Gemini API key.", ""))
     ELSE [s EXCEPT !.pc = "ready", !.api_key = api_key]

\* config.py:44-73: the request as FastAPI leaves it after resolving
\* Depends(get_gemini_client): answered 401, or ready to enter the handler
\* with a client built on api_key
get_gemini_client(x_api_key, google_api_key) ==
  LET s == [IdleReq EXCEPT !.kind = "request", !.x_api_key = x_api_key,
                           !.google_api_key = google_api_key]
      api_key == IF Falsy(x_api_key) THEN google_api_key ELSE Val(x_api_key)
  IN IF api_key = ""
     THEN HttpError(s, 401,
            Msg("API key required. Please provide your Gemini API key.", ""))
     ELSE [s EXCEPT !.pc = "ready", !.api_key = api_key]

\* ------------------------------------------------- POST /api/validate-key
\* `sub in text` for strings, both written as sequences of characters
IsSubstring(sub, text) ==
  \E i \in 1..(Len(text) - Len(sub) + 1) :
    SubSeq(text, i, i + Len(sub) - 1) = sub

API_KEY_INVALID == <<"A", "P", "I", "_", "K", "E", "Y", "_", "I", "N", "V", "A", "L", "I", "D">>
QUOTA == <<"Q", "U", "O", "T", "A">>
Code401 == <<"4", "0", "1">>
Code429 == <<"4", "2", "9">>

\* values of str(e) for an exception of the test call
ErrorMessages ==
  {API_KEY_INVALID, Code401, QUOTA, Code429,
   <<"4", "2", "9", " ", "4", "0", "1">>,
   <<"4", "0", "1", " ", "Q", "U", "O", "T", "A">>,
   <<"1", "4", "2", "9", "0">>,
   <<"q", "u", "o", "t", "a">>,
   <<"t", "i", "m", "e", "o", "u", "t">>}

InvalidKeyDetail == "Invalid API key. Please check your key and try again."
QuotaDetail == "API quota exceeded. Please wait or check your usage limits."
GenericDetail == "API key validation failed: "

\* main.py:75-81 with the quota test made before the invalid-key test
ClassifyErrorQuotaFirst(error_msg) ==
  IF IsSubstring(QUOTA, error_msg) \/ IsSubstring(Code429, error_msg)
  THEN Msg(QuotaDetail, <<>>)
  ELSE IF IsSubstring(API_KEY_INVALID, error_msg) \/ IsSubstring(Code401, error_msg)
  THEN Msg(InvalidKeyDetail, <<>>)
  ELSE Msg(GenericDetail, error_msg)

\* main.py:75-81, the detail chosen for error_msg = str(e)
ClassifyError(error_msg) ==
  IF IsSubstring(API_KEY_INVALID, error_msg) \/ IsSubstring(Code401, error_msg)
  THEN Msg(InvalidKeyDetail, <<>>)
  ELSE IF IsSubstring(QUOTA, error_msg) \/ IsSubstring(Code429, error_msg)
  THEN Msg(QuotaDetail, <<>>)
  ELSE Msg(GenericDetail, error_msg)

\* main.py:53-83.  raised: the test call raised an exception whose text is
\* error_msg; otherwise it returned and its response is not looked at
validate_api_key(x_api_key, raised, error_msg) ==
  LET call == [purpose |-> "validate_key", model |-> "gemini-2.0-flash",
               response_schema |-> "",
               outcome |-> IF raised THEN "raise" ELSE "returned"]
      s == [IdleReq EXCEPT !.kind = "validate_key",
                           !.x_api_key = Some(x_api_key),
                           !.aiCalls = <<call>>]
  IN IF raised
     THEN HttpError([s EXCEPT !.error_msg = error_msg], 401,
                    ClassifyError(error_msg))
     ELSE HttpResponse(s, 200, Msg("", <<>>),
                       Some([valid |-> TRUE, message |-> "API key is valid"]))

\* ------------------------------------------------- the debug directory
\* Strings that go into file names are sequences of characters; the fixed
\* parts "prompts_", "responses_", "prompt_", "response_" and ".md" are one
\* element each.

\* group ids and document names handed to the logger
GroupIds == {<<"a">>, <<"a", "_", "b">>, <<"a", "/">>}

\* the `name` argument of log_interaction
InteractionNames == {<<"n">>}

\* c.isalnum() or c in ('-', '_', '.'), over the characters used here
IsSafeChar(c) == c \in {"a", "b", "n", "0", "1", "2", "3", "-", "_", "."}

RECURSIVE Strip(_)
\* str.strip()
Strip(str) ==
  IF str = <<>> THEN str
  ELSE IF Head(str) = " " THEN Strip(Tail(str))
  ELSE IF str[Len(str)] = " " THEN Strip(SubSeq(str, 1, Len(str) - 1))
  ELSE str

\* debug.py:118 and 191-193
Sanitize(group_id) == Strip(SelectSeq(group_id, IsSafeChar))

\* datetime.now().strftime("%Y%m%d_%H%M%S"): "0" stands for the date, the
\* last character for the time of day
Timestamp(t) == <<"0", "_", <<"0", "1", "2", "3">>[t + 1]>>

StartsWith(str, pre) ==
  Len(str) >= Len(pre) /\ SubSeq(str, 1, Len(pre)) = pre

\* fnmatch of a file name against prompts_{safe_group_id}_*.md
GlobMatches(fname, safe_group_id) ==
  /\ StartsWith(fname, <<"prompts_">> \o safe_group_id \o <<"_">>)
  /\ fname[Len(fname)] = ".md"
  /\ Len(fname) >= Len(safe_group_id) + 3

\* debug.py:122-126 and 196-200: the matching files, and the one modified last
ExistingFiles(fs, safe_group_id) ==
  {f \in fs : GlobMatches(f.name, safe_group_id)}

MostRecent(files) ==
  CHOOSE f \in files : \A g \in files : g.mtime <= f.mtime

\* prompt_file.name.replace("prompts_", "responses_", 1)
ResponseName(prompt_name) ==
  IF \E i \in 1..Len(prompt_name) : prompt_name[i] = "prompts_"
  THEN LET i == CHOOSE i \in 1..Len(prompt_name) :
                  /\ prompt_name[i] = "prompts_"
                  /\ \A j \in 1..(i - 1) : prompt_name[j] # "prompts_"
       IN [prompt_name EXCEPT ![i] = "responses_"]
  ELSE prompt_name

\* the mode that truncates whether or not a file of the group exists
OpenModeTruncating(existing_files) == "w"

\* debug.py:128-139 and 202-209: append to the group's files, else create
OpenMode(existing_files) == IF existing_files # {} THEN "a" ELSE "w"

\* with open(fname, mode) as f: f.write(...).  rec: the record written,
\* mtime: the file's modification time after the write
WriteFile(fs, fname, mode, rec, mtime) ==
  LET old == {f \in fs : f.name = fname}
      kept == IF mode = "a" /\ old # {}
              THEN (CHOOSE f \in old : TRUE).records ELSE <<>>
  IN (fs \ old) \cup
       {[name |-> fname, records |-> Append(kept, rec), mtime |-> mtime]}

\* the file pair a call writes to, and the mode (debug.py:114-145, 196-209)
GroupTarget(fs, safe_group_id, t) ==
  LET existing_files == ExistingFiles(fs, safe_group_id)
  IN IF existing_files # {}
     THEN [prompt_file |-> MostRecent(existing_files).name,
           response_file |-> ResponseName(MostRecent(existing_files).name),
           mode |-> OpenMode(existing_files)]
     ELSE [prompt_file |-> <<"prompts_">> \o safe_group_id \o <<"_">>
                             \o Timestamp(t) \o <<".md">>,
           response_file |-> <<"responses_">> \o safe_group_id \o <<"_">>
                               \o Timestamp(t) \o <<".md">>,
           mode |-> OpenMode(existing_files)]

StandaloneTarget(name, t) ==
  [prompt_file |-> <<"prompt_">> \o Timestamp(t) \o <<"_">> \o name
                     \o <<".md">>,
   response_file |-> <<"response_">> \o Timestamp(t) \o <<"_">> \o name
                       \o <<".md">>,
   mode |-> "w"]

WritePair(fs, target, rec) ==
  WriteFile(WriteFile(fs, target.prompt_file, target.mode, rec, rec),
            target.response_file, target.mode, rec, rec)

\* debug.py:32-171 called with its own parameter names; group_id <<>> is
\* None or the empty string.  rec numbers the call.
log_interaction(fs, name, group_id, t, rec) ==
  IF group_id # <<>>
  THEN WritePair(fs, GroupTarget(fs, Sanitize(group_id), t), rec)
  ELSE WritePair(fs, StandaloneTarget(name, t), rec)

\* log_cache_hit that leaves the response file alone when the document has
\* no files yet
log_cache_hit_prompt_only(fs, document_name, t, rec) ==
  LET target == GroupTarget(fs, Sanitize(document_name), t)
  IN IF target.mode = "w"
     THEN WriteFile(fs, target.prompt_file, target.mode, rec, rec)
     ELSE WritePair(fs, target, rec)

\* debug.py:173-230
log_cache_hit(fs, document_name, t, rec) ==
  WritePair(fs, GroupTarget(fs, Sanitize(document_name), t), rec)

\* ---------------------------------------------------------------- state
VARIABLES
  req,          \* req[r]: the request a connection slot is serving
  now,          \* datetime.now(), in whole seconds
  debug_path,   \* the files of the debug directory
  history       \* the calls made to the DebugLogger, in order

vars == <<req, now, debug_path, history>>

logvars == <<debug_path, history>>

Init ==
  /\ req = [r \in Req |-> IdleReq]
  /\ now = 0
  /\ debug_path = {}
  /\ history = <<>>

\* asyncio runs one coroutine at a time: no handler code runs while a
\* coroutine is inside a synchronous call on the event loop's thread
EventLoopFree == \A q \in DOMAIN req : req[q].thread # "event_loop"

\* a request for a route that depends on get_gemini_client arrives and the
\* dependency is resolved
GetGeminiClient(r) ==
  /\ EventLoopFree
  /\ req[r].pc = "idle"
  /\ \E x_api_key \in HeaderKeys, google_api_key \in ConfiguredKeys :
       req' = [req EXCEPT ![r] = get_gemini_client(x_api_key, google_api_key)]
  /\ UNCHANGED <<now, logvars>>

\* POST /upload-stream: the response starts iterating the generator
UploadStreamBegin(r) ==
  /\ EventLoopFree
  /\ req[r].pc = "ready"
  /\ \E fn \in FileNames : req' = [req EXCEPT ![r] = StreamBegin(fn)]
  /\ UNCHANGED <<now, logvars>>

\* the streaming response asks the generator for its next event
GeneratorNext(r) ==
  /\ EventLoopFree
  /\ req[r].pc \in {"validating", "extracting", "parsing", "generating_overview"}
  /\ \E sz \in FileSizes, pf \in ProfileFields, tmpl \in TemplateStates,
        plan \in AiPlans(req[r].parsed_profile) :
       req' = [req EXCEPT ![r] = ResumeGenerator(@, sz, pf, tmpl, plan, now)]
  /\ UNCHANGED <<now, logvars>>

\* a worker thread finishes the generate_content call it was given
ToThreadReturn(r) ==
  /\ \A q \in DOMAIN req \ {r} : req[q].thread # "event_loop"
  /\ req[r].pc \in {"await_extract", "await_overview"}
  /\ req' = [req EXCEPT ![r] = ResumeFromThread(@)]
  /\ UNCHANGED <<now, logvars>>

\* the client disconnects while a call of its stream is in flight
Disconnect(r) ==
  /\ EventLoopFree
  /\ req[r].pc \in {"await_extract", "await_overview"}
  /\ req' = [req EXCEPT ![r] = StreamCancel(@)]
  /\ UNCHANGED <<now, logvars>>

\* the call of a cancelled stream ends in its worker thread
WorkerThreadEnds(r) ==
  /\ req[r].pc = "cancelled"
  /\ req[r].thread = "worker"
  /\ req' = [req EXCEPT ![r] = AbandonedCallEnds(@)]
  /\ UNCHANGED <<now, logvars>>

\* POST /upload
Upload(r) ==
  /\ EventLoopFree
  /\ req[r].pc = "ready"
  /\ \E fn \in FileNames, sz \in FileSizes, outcome \in AiOutcomes :
       req' = [req EXCEPT ![r] = upload_and_parse_pdf(fn, sz, now, outcome)]
  /\ UNCHANGED <<now, logvars>>

\* POST /notes
Notes(r) ==
  /\ EventLoopFree
  /\ req[r].pc = "ready"
  /\ \E sid \in ClientSessions, tmpl \in TemplateStates, outcome \in AiOutcomes :
       req' = [req EXCEPT ![r] = generate_notes(sid, tmpl, outcome)]
  /\ UNCHANGED <<now, logvars>>

\* POST /inline-command
InlineCommand(r) ==
  /\ EventLoopFree
  /\ req[r].pc = "ready"
  /\ \E cmd \in CommandTypes, expertise \in Expertises,
        sid \in ClientSessions, tmpl \in TemplateStates,
        outcome \in AiOutcomes :
       req' = [req EXCEPT ![r] =
                 execute_inline_command(cmd, expertise, sid, tmpl, outcome)]
  /\ UNCHANGED <<now, logvars>>

\* POST /api/validate-key; the route takes the header itself and does not
\* depend on get_gemini_client
ValidateKey(r) ==
  /\ EventLoopFree
  /\ req[r].pc = "idle"
  /\ \/ req' = [req EXCEPT ![r] = validate_api_key("hdr-key", FALSE, <<>>)]
     \/ \E error_msg \in ErrorMessages :
          req' = [req EXCEPT ![r] = validate_api_key("hdr-key", TRUE, error_msg)]
  /\ UNCHANGED <<now, logvars>>

\* POST /integrate-emphasis
IntegrateEmphasis(r) ==
  /\ EventLoopFree
  /\ req[r].pc = "ready"
  /\ \E sid \in ClientSessions, tmpl \in TemplateStates, outcome \in AiOutcomes :
       req' = [req EXCEPT ![r] = integrate_emphasis(sid, tmpl, outcome)]
  /\ UNCHANGED <<now, logvars>>

\* the response has been delivered (or the connection dropped) and the
\* slot serves the next request
Close(r) ==
  /\ EventLoopFree
  /\ \/ req[r].pc \in {"done", "crashed"}
     \/ req[r].pc = "cancelled" /\ req[r].thread = ""
  /\ req' = [req EXCEPT ![r] = IdleReq]
  /\ UNCHANGED <<now, logvars>>

\* the wall clock advances by one second
Tick ==
  /\ now < MaxClock
  /\ now' = now + 1
  /\ UNCHANGED <<req, logvars>>

Next ==
  \/ \E r \in Req : GetGeminiClient(r)
  \/ \E r \in Req : UploadStreamBegin(r)
  \/ \E r \in Req : GeneratorNext(r)
  \/ \E r \in Req : ToThreadReturn(r)
  \/ \E r \in Req : Disconnect(r)
  \/ \E r \in Req : WorkerThreadEnds(r)
  \/ \E r \in Req : Upload(r)
  \/ \E r \in Req : Notes(r)
  \/ \E r \in Req : InlineCommand(r)
  \/ \E r \in Req : IntegrateEmphasis(r)
  \/ \E r \in Req : ValidateKey(r)
  \/ \E r \in Req : Close(r)
  \/ Tick

Spec == Init /\ [][Next]_vars

\* ------------------------------------------- the logger on its directory
\* a call of DebugLogger.log_interaction with the parameters it declares
LogInteraction ==
  /\ Len(history) < MaxCalls
  /\ \E name \in InteractionNames, group_id \in GroupIds \cup {<<>>} :
       /\ debug_path' = log_interaction(debug_path, name, group_id, now,
                                        Len(history) + 1)
       /\ history' = Append(history,
                       [op |-> "log_interaction", name |-> name,
                        group |-> group_id, t |-> now, logged |-> TRUE])
  /\ UNCHANGED <<req, now>>

\* POST /debug/cache-hits (routers/debug.py:32-64)
LogCacheHits ==
  /\ Len(history) < MaxCalls
  /\ \E document_name \in GroupIds, cached_pages \in {<<>>, <<1>>} :
       /\ debug_path' = IF cached_pages = <<>> THEN debug_path
                        ELSE log_cache_hit(debug_path, document_name, now,
                                           Len(history) + 1)
       /\ history' = Append(history,
                       [op |-> "log_cache_hit", name |-> <<>>,
                        group |-> document_name, t |-> now,
                        logged |-> cached_pages # <<>>])
  /\ UNCHANGED <<req, now>>

LoggerNext ==
  \/ LogInteraction
  \/ LogCacheHits
  \/ Tick

LoggerSpec == Init /\ [][LoggerNext]_vars

\* two connections served by the one event loop
Conns == {1, 2}

ConcInit ==
  /\ req = [r \in Conns |-> IdleReq]
  /\ now = 0
  /\ debug_path = {}
  /\ history = <<>>

ConcNext ==
  \/ \E r \in Conns : GetGeminiClient(r)
  \/ \E r \in Conns : UploadStreamBegin(r)
  \/ \E r \in Conns : GeneratorNext(r)
  \/ \E r \in Conns : ToThreadReturn(r)
  \/ \E r \in Conns : Disconnect(r)
  \/ \E r \in Conns : WorkerThreadEnds(r)
  \/ \E r \in Conns : Upload(r)
  \/ \E r \in Conns : Notes(r)
  \/ \E r \in Conns : InlineCommand(r)
  \/ \E r \in Conns : IntegrateEmphasis(r)
  \/ \E r \in Conns : ValidateKey(r)
  \/ \E r \in Conns : Close(r)
  \/ Tick

ConcSpec == ConcInit /\ [][ConcNext]_vars

\* =================================================================
\* Properties
\* =================================================================
Ended(s) == s.pc \in {"done", "crashed"}

Steps(s) == [i \in 1..Len(s.events) |-> s.events[i].step]

HasStep(s, step) == \E i \in 1..Len(s.events) : s.events[i].step = step

LastEvent(s) == s.events[Len(s.events)]

TerminalSteps == {"complete", "error"}

IsUpload(s) == s.kind \in {"upload", "upload_stream"}

\* the upload was turned down: an error event ends the stream, or /upload
\* answered with a 400
RejectedWith(s, text) ==
  /\ s.pc = "done"
  /\ IF s.kind = "upload_stream"
     THEN LastEvent(s).step = "error" /\ LastEvent(s).message = Msg(text, "")
     ELSE s.response.status = 400 /\ s.response.detail = Msg(text, "")

SizeMessage == "PDF exceeds 50MB limit. Please upload a smaller file."
NameMessage == "Only PDF files are accepted"

\* the extraction call of a stream has returned a well-formed result
ExtractionReturned(s, outcome) ==
  /\ Len(s.aiCalls) >= 1
  /\ s.aiCalls[1].purpose = "pdf_extraction"
  /\ s.aiCalls[1].outcome = outcome

CallsFor(s, purpose) ==
  Cardinality({i \in 1..Len(s.aiCalls) : s.aiCalls[i].purpose = purpose})

\* the overview stage was not stopped by its own inputs: the prompt template
\* could be read and filled, and the AI did not return a value ParsedPDF refuses
OverviewInputsSound(s) ==
  s.escaped \notin {"FileNotFoundError", "KeyError", "ValidationError"}

\* C1: a stream whose file passes validation and whose extraction call
\* returns a well-formed result emits exactly validating, extracting,
\* parsing, generating_overview (only with a supplied profile), complete,
\* each once and in that order.
C1_SuccessPathSteps ==
  \A r \in Req :
    LET s == req[r]
    IN (s.kind = "upload_stream" /\ Ended(s) /\ ExtractionReturned(s, "parsed")
        /\ OverviewInputsSound(s))
       => \/ Steps(s) = <<"validating", "extracting", "parsing", "complete">>
          \/ /\ s.user_profile_json # "absent"
             /\ Steps(s) = <<"validating", "extracting", "parsing",
                             "generating_overview", "complete">>

\* C2: every stream ends with exactly one terminal event (complete or
\* error), which is its last event, and no exception leaves the generator.
C2_OneTerminalEventLast ==
  \A r \in Req :
    LET s == req[r]
    IN s.kind = "upload_stream" =>
         /\ s.escaped = ""
         /\ \A i \in 1..Len(s.events) :
              s.events[i].step \in TerminalSteps => i = Len(s.events) /\ Ended(s)
         /\ Ended(s) => LastEvent(s).step \in TerminalSteps

\* C3: an upload of more than 50 MiB is rejected with no AI call made, and
\* one of exactly 50 MiB is not rejected for its size.
C3_OversizeRejectedBeforeAi ==
  \A r \in Req :
    LET s == req[r]
    IN (IsUpload(s) /\ s.size # NoSize) =>
         /\ s.size > 50 * 1024 * 1024 =>
              RejectedWith(s, SizeMessage) /\ s.aiCalls = <<>>
         /\ s.size = 50 * 1024 * 1024 => ~RejectedWith(s, SizeMessage)

C3_Witness ==
  \E r \in Req :
    /\ req[r].kind = "upload_stream"
    /\ req[r].size = 50 * 1024 * 1024 + 1
    /\ RejectedWith(req[r], SizeMessage)

\* C4: an upload whose file name is missing or does not end in .pdf (letter
\* case aside) is rejected at validation: its bytes are not read, no session
\* id is minted and the AI client is never called.
NotAPdfName(fn) == IsNone(fn) \/ ~EndsWith(Lower(Val(fn)), PdfSuffix)

ValidationRan(s) == IsUpload(s) /\ s.pc # "validating"

C4_BadNameRejectedUnread ==
  \A r \in Req :
    LET s == req[r]
    IN (ValidationRan(s) /\ NotAPdfName(s.filename)) =>
         /\ RejectedWith(s, NameMessage)
         /\ s.size = NoSize
         /\ s.session_id = NoSession
         /\ s.aiCalls = <<>>

C4_Witness ==
  \E r \in Req :
    /\ req[r].kind = "upload_stream"
    /\ req[r].filename = Some(<<"n", ".", "p", "d", "f", ".", "t">>)
    /\ Len(req[r].events) = 2
    /\ RejectedWith(req[r], NameMessage)

\* C5: with no profile supplied a stream never emits generating_overview
\* and never makes the overview call; a stream that gets past parsing emits
\* generating_overview exactly when a profile was supplied and parsed.
C5_OverviewIffProfile ==
  \A r \in Req :
    LET s == req[r]
    IN s.kind = "upload_stream" =>
         /\ s.user_profile_json = "absent" =>
              ~HasStep(s, "generating_overview")
              /\ CallsFor(s, "document_overview") = 0
         /\ (Ended(s) /\ ExtractionReturned(s, "parsed")) =>
              (HasStep(s, "generating_overview") <=> s.parsed_profile)

\* C6: when a profile is supplied and the overview call fails, the stream
\* still ends with complete, whose payload has overview null, and emits no
\* error event.
C6_OverviewFailureNonFatal ==
  \A r \in Req :
    LET s == req[r]
    IN (s.kind = "upload_stream" /\ Ended(s) /\ s.parsed_profile
        /\ ExtractionReturned(s, "parsed") /\ s.ai.overview = "raise"
        /\ OverviewInputsSound(s))
       => /\ s.pc = "done"
          /\ LastEvent(s).step = "complete"
          /\ Val(LastEvent(s).data).overview = NoneV
          /\ ~HasStep(s, "error")

\* C7: when the extraction call raises, the failure is logged under the
\* upload's session id, an error event is emitted and the pipeline stops:
\* one extraction call, and no parsing, generating_overview or complete.
C7_ExtractionFailureAborts ==
  \A r \in Req :
    LET s == req[r]
    IN (s.kind = "upload_stream" /\ Ended(s) /\ ExtractionReturned(s, "raise"))
       => /\ \E i \in 1..Len(s.logged) :
               /\ s.logged[i].group = s.session_id
               /\ s.logged[i].error = AiErrorText
          /\ LastEvent(s).step = "error"
          /\ CallsFor(s, "pdf_extraction") = 1
          /\ ~HasStep(s, "parsing")
          /\ ~HasStep(s, "generating_overview")
          /\ ~HasStep(s, "complete")

\* C8: a valid /notes request whose AI call returns a NotesResponse is
\* answered 200 with that response's fields, after exactly one AI call made
\* with the configured model and NotesResponse as response schema.
C8_NotesRoundTrip ==
  \A r \in Req :
    LET s == req[r]
    IN (s.kind = "notes" /\ Ended(s) /\ Len(s.aiCalls) >= 1
        /\ s.aiCalls[1].outcome = "parsed")
       => /\ s.response.status = 200
          /\ s.response.body = Some(ParsedValue("NotesResponse"))
          /\ Len(s.aiCalls) = 1
          /\ s.aiCalls[1].model = "gemini-3-flash-preview"
          /\ s.aiCalls[1].response_schema = "NotesResponse"

\* C9: in generate_notes, execute_inline_command, integrate_emphasis and
\* the plain upload handler an exception of the AI call becomes HTTP 500
\* "Gemini API error: <message>", and nothing else reaches the caller.
C9_AiErrorUniform ==
  \A r \in Req :
    LET s == req[r]
    IN (s.kind \in {"notes", "inline_command", "integrate_emphasis", "upload"}
        /\ Ended(s) /\ Len(s.aiCalls) >= 1 /\ s.aiCalls[1].outcome = "raise")
       => /\ s.escaped = ""
          /\ s.response.status = 500
          /\ s.response.detail = Msg("Gemini API error: ", AiErrorText)

\* C10: in generate_notes, execute_inline_command and integrate_emphasis a
\* call that returns a value that is no instance of the expected type (None
\* included) fails with HTTP 500 "Gemini response did not match expected
\* schema" and returns no result.
C10_SchemaMismatchIsError ==
  \A r \in Req :
    LET s == req[r]
    IN (s.kind \in {"notes", "inline_command", "integrate_emphasis"}
        /\ Ended(s) /\ Len(s.aiCalls) >= 1
        /\ s.aiCalls[1].outcome \in {"none", "other"})
       => /\ s.escaped = ""
          /\ s.response.status = 500
          /\ s.response.detail =
               Msg("Gemini response did not match expected schema", "")
          /\ s.response.body = NoneV

HandlerKinds == {"notes", "inline_command", "integrate_emphasis", "upload"}

\* a log_interaction call was made and raised instead of writing
LoggerFailed(s) == s.logCalls > Len(s.logged)

\* C11: debug logging is best-effort: when the debug logger raises, the
\* request still ends as its AI call decided: with its result when the call
\* returned it, with the uniform "Gemini API error" when the call raised.
C11_LoggerFailureSwallowed ==
  \A r \in Req :
    LET s == req[r]
    IN (s.kind \in HandlerKinds /\ Ended(s) /\ LoggerFailed(s)) =>
         /\ s.escaped = ""
         /\ s.aiCalls[1].outcome = "parsed" =>
              s.response.status = 200 /\ s.response.body # NoneV
         /\ s.aiCalls[1].outcome = "raise" =>
              s.response.detail = Msg("Gemini API error: ", AiErrorText)

\* C12: the session id of a stream is minted once and stays fixed; the
\* extraction call is logged under it (and the overview call, when made),
\* and the complete payload carries it; a handler call that carries a
\* session id is logged under the id the caller sent.
LoggedUnder(s, name, sid) ==
  \E i \in 1..Len(s.logged) :
    s.logged[i].name = name /\ s.logged[i].group = sid

AnsweredCalls(s) ==
  {i \in 1..Len(s.aiCalls) : s.aiCalls[i].outcome # "pending"}

C12_SessionIdCorrelatesLogs ==
  \A r \in Req :
    LET s == req[r]
    IN /\ s.kind = "upload_stream" =>
            /\ \A i \in AnsweredCalls(s) :
                 Ended(s) => LoggedUnder(s, s.aiCalls[i].purpose, s.session_id)
            /\ \A i \in 1..Len(s.events) :
                 s.events[i].step = "complete" =>
                   Val(s.events[i].data).session_id = s.session_id
       /\ (s.kind \in HandlerKinds \ {"upload"} /\ Ended(s)
           /\ s.session_id # NoSession /\ s.aiCalls # <<>>) =>
            LoggedUnder(s, s.aiCalls[1].purpose, s.session_id)

\* C13: nothing is retried: /notes, /inline-command, /integrate-emphasis
\* and /upload call the AI client at most once per request, /upload-stream
\* at most once for extraction and at most once for the overview.
C13_NoRetry ==
  \A r \in Req :
    LET s == req[r]
    IN /\ s.kind \in HandlerKinds => Len(s.aiCalls) <= 1
       /\ s.kind = "upload_stream" =>
            /\ CallsFor(s, "pdf_extraction") <= 1
            /\ CallsFor(s, "document_overview") <= 1
            /\ Len(s.aiCalls) <= 2

C13_Witness ==
  \E r \in Req :
    /\ req[r].kind = "upload_stream"
    /\ Ended(req[r])
    /\ ExtractionReturned(req[r], "raise")
    /\ Len(req[r].aiCalls) = 1

\* C14: for the analogy command the instruction handed to the prompt is the
\* table entry of the profile's prior_expertise (the programming fragment
\* for "Software Engineering") and the "Domain Novice" entry for a value
\* that is no key; elaborate and simplify get no analogy instruction.
C14_AnalogyInstruction ==
  \A r \in Req :
    LET s == req[r]
    IN (s.kind = "inline_command" /\ s.aiCalls # <<>>) =>
         CASE s.command_type # "analogy" -> s.analogy_instruction = NoneV
           [] s.prior_expertise = "Software Engineering" ->
                s.analogy_instruction =
                  Some("Explain this concept using a programming analogy.")
           [] s.prior_expertise \in DOMAIN ANALOGY_INSTRUCTIONS ->
                s.analogy_instruction =
                  Some(ANALOGY_INSTRUCTIONS[s.prior_expertise])
           [] OTHER ->
                s.analogy_instruction =
                  Some(ANALOGY_INSTRUCTIONS["Domain Novice"])

C14_Witness ==
  \E r \in Req :
    /\ req[r].kind = "inline_command"
    /\ req[r].command_type = "analogy"
    /\ req[r].prior_expertise \notin DOMAIN ANALOGY_INSTRUCTIONS
    /\ req[r].aiCalls # <<>>
    /\ req[r].analogy_instruction =
         Some("Explain this concept using an everyday real-world analogy.")

MalformedProfile(s) ==
  s.kind = "upload_stream" /\ s.user_profile_json = "malformed"

TemplateHandlers == {"notes", "inline_command", "integrate_emphasis"}

\* C16: in generate_notes, execute_inline_command and integrate_emphasis a
\* missing template file or a placeholder without a value gives HTTP 500
\* ("Prompt file not found..." / "Prompt formatting error: Missing key K"),
\* and neither the AI client nor the debug logger is called.
C16_TemplateErrorBeforeAi ==
  \A r \in Req :
    LET s == req[r]
    IN (s.kind \in TemplateHandlers
        /\ s.template \in {"missing_file", "missing_key"}) =>
         /\ Ended(s) /\ s.escaped = ""
         /\ s.response.status = 500
         /\ s.response.detail.text =
              (IF s.template = "missing_file"
               THEN "Prompt file not found: "
               ELSE "Prompt formatting error: Missing key ")
         /\ s.aiCalls = <<>>
         /\ s.logCalls = 0

C16_Witness ==
  \E r \in Req :
    /\ req[r].kind = "integrate_emphasis"
    /\ req[r].template = "missing_key"
    /\ req[r].response.status = 500
    /\ req[r].logCalls = 0

\* C17: a non-empty X-API-Key header is the key the client is built on,
\* otherwise the configured key is; when both are absent or empty the
\* request is answered 401 without entering a handler: no AI call is made
\* and no stream event is produced.
C17_CredentialResolution ==
  \A r \in Req :
    LET s == req[r]
        hdr == s.x_api_key
        noHeader == hdr = NoneV \/ hdr = Some("")
    IN s.kind = "request" =>
         /\ ~noHeader => s.pc = "ready" /\ s.api_key = hdr[1]
         /\ (noHeader /\ s.google_api_key # "") =>
              s.pc = "ready" /\ s.api_key = s.google_api_key
         /\ (noHeader /\ s.google_api_key = "") =>
              /\ s.pc = "done"
              /\ s.response.status = 401
              /\ s.aiCalls = <<>>
              /\ s.events = <<>>

C17_Witness ==
  \E r \in Req :
    /\ req[r].kind = "request"
    /\ req[r].x_api_key = Some("hdr-key")
    /\ req[r].google_api_key = "env-key"
    /\ req[r].pc = "ready"
    /\ req[r].api_key = "hdr-key"

C19_CommandTypeEchoed ==
  \A r \in Req :
    LET s == req[r]
    IN (s.kind = "inline_command" /\ Ended(s) /\ s.aiCalls # <<>>
        /\ s.aiCalls[1].outcome = "parsed") =>
         /\ s.response.status = 200
         /\ s.response.body # NoneV
         /\ Val(s.response.body).command_type = s.command_type
         /\ Val(s.response.body).content =
              ParsedValue("InlineCommandResponse").content

Mentions(s, word) == IsSubstring(word, s.error_msg)

\* C20: the key validation endpoint answers valid = true when the test call
\* succeeds; when it raises, the answer is one classified error: "invalid
\* key" when the message contains API_KEY_INVALID or 401, otherwise "quota
\* exceeded" when it contains QUOTA or 429, otherwise the generic failure
\* with the message in it; invalid key wins when both patterns match.
C20_ValidateKeyClassified ==
  \A r \in Req :
    LET s == req[r]
    IN (s.kind = "validate_key" /\ Ended(s)) =>
         /\ s.escaped = ""
         /\ s.aiCalls[1].outcome = "returned" =>
              /\ s.response.status = 200
              /\ Val(s.response.body).valid
         /\ s.aiCalls[1].outcome = "raise" =>
              /\ s.response.body = NoneV
              /\ s.response.detail =
                   IF Mentions(s, API_KEY_INVALID) \/ Mentions(s, Code401)
                   THEN Msg(InvalidKeyDetail, <<>>)
                   ELSE IF Mentions(s, QUOTA) \/ Mentions(s, Code429)
                   THEN Msg(QuotaDetail, <<>>)
                   ELSE Msg(GenericDetail, s.error_msg)

C20_Witness ==
  \E r \in Req :
    /\ req[r].kind = "validate_key"
    /\ Mentions(req[r], Code429) /\ Mentions(req[r], Code401)
    /\ req[r].response.detail = Msg(InvalidKeyDetail, <<>>)

\* ------------------------------------------------- concurrent connections
InFlight(s) ==
  /\ s.pc \in {"await_extract", "await_overview"}
  /\ s.aiCalls[Len(s.aiCalls)].outcome = "pending"

\* C21: while an extraction or overview call of a stream is in flight the
\* event loop is free: on another connection a request can start (its
\* dependency is resolved), progress (a handler runs, a generator is
\* resumed) and finish (its response is delivered).
C21_LoopFreeDuringCall ==
  \A r \in DOMAIN req :
    InFlight(req[r]) =>
      \A q \in DOMAIN req \ {r} :
        /\ req[q].pc = "idle" => ENABLED GetGeminiClient(q)
        /\ req[q].pc = "ready" =>
             ENABLED Notes(q) /\ ENABLED UploadStreamBegin(q)
        /\ req[q].pc \in {"validating", "extracting"} =>
             ENABLED GeneratorNext(q)
        /\ req[q].pc = "await_extract" => ENABLED ToThreadReturn(q)
        /\ req[q].pc \in {"done", "crashed"} => ENABLED Close(q)

C21_Witness ==
  \E r \in DOMAIN req, q \in DOMAIN req :
    /\ r # q
    /\ InFlight(req[r]) /\ req[r].thread = "worker"
    /\ InFlight(req[q])

\* ------------------------------------------------------- the debug logs
LoggingCalls == {i \in 1..Len(history) : history[i].logged}

CallsOfKey(g) == {i \in LoggingCalls : history[i].group = g}

\* every call so far used the key g or no key at all
OnlyKey(g) == \A i \in LoggingCalls : history[i].group \in {g, <<>>}

FilesNamed(prefix) == {f \in debug_path : f.name[1] = prefix}

\* the records of f are the calls of `calls`, one each, in call order
HoldsInOrder(f, calls) ==
  /\ Len(f.records) = Cardinality(calls)
  /\ \A k \in 1..Len(f.records) : f.records[k] \in calls
  /\ \A k \in 1..(Len(f.records) - 1) : f.records[k] < f.records[k + 1]

FirstOf(calls) == CHOOSE i \in calls : \A j \in calls : i <= j

\* C22: calls made one after the other under one non-empty group id: the
\* first creates one prompts_/responses_ pair named by its timestamp, the
\* later ones append to it, so one pair exists for the key and holds one
\* record per call in call order; a call without a group id has a
\* standalone prompt_/response_ pair named by its timestamp and its name.
C22_TwoStateLogProtocol ==
  /\ \A g \in GroupIds :
       (OnlyKey(g) /\ CallsOfKey(g) # {}) =>
         LET first == history[FirstOf(CallsOfKey(g))]
             stem == Sanitize(g) \o <<"_">> \o Timestamp(first.t) \o <<".md">>
         IN /\ Cardinality(FilesNamed("prompts_")) = 1
            /\ Cardinality(FilesNamed("responses_")) = 1
            /\ \A f \in FilesNamed("prompts_") :
                 f.name = <<"prompts_">> \o stem
                 /\ HoldsInOrder(f, CallsOfKey(g))
            /\ \A f \in FilesNamed("responses_") :
                 f.name = <<"responses_">> \o stem
                 /\ HoldsInOrder(f, CallsOfKey(g))
  /\ \A i \in CallsOfKey(<<>>) :
       LET tail == Timestamp(history[i].t) \o <<"_">> \o history[i].name
                     \o <<".md">>
       IN \A prefix \in {"prompt_", "response_"} :
            \E f \in debug_path :
              /\ f.name = <<prefix>> \o tail
              /\ \A k \in 1..Len(f.records) : f.records[k] \in CallsOfKey(<<>>)

C22_Witness ==
  /\ OnlyKey(<<"a">>)
  /\ Cardinality(CallsOfKey(<<"a">>)) = 2
  /\ Cardinality(CallsOfKey(<<>>)) = 1
  /\ \E i \in CallsOfKey(<<"a">>), j \in CallsOfKey(<<"a">>) :
       history[i].t # history[j].t /\ history[i].op # history[j].op
  /\ \E f \in FilesNamed("responses_") : Len(f.records) = 2

Holds(f, i) == \E k \in 1..Len(f.records) : f.records[k] = i

\* C23: the debug log files are append-only: the record a call has written
\* stays in its prompt-side file and in its response-side file whatever
\* calls are made afterwards, with or without a group id.
C23_AppendOnly ==
  \A i \in LoggingCalls :
    Cardinality({f \in debug_path : Holds(f, i)}) = 2

\* the first operation on the empty directory was a logged cache hit
FirstIsCacheHit ==
  /\ history # <<>>
  /\ history[1].op = "log_cache_hit"
  /\ history[1].logged

NoAiCall == \A r \in DOMAIN req : req[r].aiCalls = <<>>

\* C24 as stated: logging a cache hit calls no AI client, and for a
\* document without log files it writes the prompt-side record and no
\* response file.
C24_CacheHitSkipsResponse ==
  FirstIsCacheHit =>
    /\ NoAiCall
    /\ \E f \in FilesNamed("prompts_") : Holds(f, 1)
    /\ \A f \in FilesNamed("responses_") : ~Holds(f, 1)

\* C24 amended: logging a cache hit calls no AI client, and for a document
\* without log files it creates the prompts_ file and the responses_ file
\* named by the sanitized document name and the timestamp, and writes the
\* cache-hit record to both.
C24_CacheHitWritesPair ==
  FirstIsCacheHit =>
    LET stem == Sanitize(history[1].group) \o <<"_">>
                  \o Timestamp(history[1].t) \o <<".md">>
    IN /\ NoAiCall
       /\ \E f \in debug_path :
            f.name = <<"prompts_">> \o stem /\ f.records[1] = 1
       /\ \E f \in debug_path :
            f.name = <<"responses_">> \o stem /\ f.records[1] = 1

C24_Witness ==
  /\ FirstIsCacheHit
  /\ Len(history) = 1
  /\ \E f \in FilesNamed("responses_") : f.records = <<1>>

\* C25: the parsing stage does not fail on its own: when the extraction
\* call returns without raising, the stream emits the parsing event and
\* the event after it is generating_overview or complete, never error.
C25_ParsingNeverFails ==
  \A r \in Req :
    LET s == req[r]
    IN (s.kind = "upload_stream" /\ Ended(s) /\ s.aiCalls # <<>>
        /\ s.aiCalls[1].outcome \in {"parsed", "none", "other"}) =>
         /\ HasStep(s, "parsing")
         /\ \A i \in 1..Len(s.events) :
              s.events[i].step = "parsing" =>
                /\ i < Len(s.events)
                /\ s.events[i + 1].step \in {"generating_overview", "complete"}

\* C26: a client that disconnects while a call of its stream is in flight
\* does not cancel the call: the worker thread goes on and the call ends
\* as the AI service decides; no event is produced after the disconnect.
C26_DisconnectLeavesCallRunning ==
  \A r \in Req :
    LET s == req[r]
        call == s.aiCalls[Len(s.aiCalls)]
        planned == IF call.purpose = "pdf_extraction"
                   THEN s.ai.extraction ELSE s.ai.overview
    IN s.pc = "cancelled" =>
         /\ LastEvent(s).step \in {"extracting", "generating_overview"}
         /\ s.logCalls = 0
         /\ \/ call.outcome = "pending" /\ s.thread = "worker"
                 /\ ENABLED WorkerThreadEnds(r)
            \/ call.outcome = planned /\ s.thread = ""

C26_Witness ==
  \E r \in Req :
    /\ req[r].pc = "cancelled"
    /\ req[r].aiCalls[1].outcome = "parsed"
    /\ Steps(req[r]) = <<"validating", "extracting">>

Minted(s) ==
  s.kind \in {"upload", "upload_stream"} /\ s.session_id # NoSession

\* C27: every upload gets a session id of its own: two different upload
\* requests, to /upload or /upload-stream, that have minted their session
\* ids hold different ids.
C27_SessionIdsUnique ==
  \A r \in DOMAIN req, q \in DOMAIN req :
    (r # q /\ Minted(req[r]) /\ Minted(req[q])) =>
      req[r].session_id # req[q].session_id

\* C28: records logged under two different group ids (session ids or
\* document names) are never in the same file, also when one sanitized id
\* followed by "_" is a prefix of the other and when two ids sanitize to
\* the same string.
C28_LogIsolation ==
  \A f \in debug_path :
    \A k \in 1..Len(f.records), l \in 1..Len(f.records) :
      history[f.records[k]].group = history[f.records[l]].group

\* /upload request u and /upload-stream request st got the same file and
\* the same AI behaviour, the stream without a profile
SameInput(u, st) ==
  /\ u.kind = "upload" /\ st.kind = "upload_stream"
  /\ Ended(u) /\ Ended(st)
  /\ st.user_profile_json \in {"unread", "absent"}
  /\ u.filename = st.filename
  /\ u.size = st.size
  /\ (u.aiCalls # <<>> /\ st.aiCalls # <<>>) =>
       u.aiCalls[1].outcome = st.aiCalls[1].outcome

\* C29: on the same input /upload answers with an error exactly when the
\* stream ends in an error event, with the same message; otherwise the
\* fields original_filename, total_pages, pages and content_hash of the
\* /upload response equal those of the stream's complete payload.
C29_UploadAgreesWithStream ==
  \A r \in DOMAIN req, q \in DOMAIN req :
    LET u == req[r]
        st == req[q]
        uploadError == u.escaped # "" \/ u.response.status # 200
        streamError == LastEvent(st).step = "error"
    IN SameInput(u, st) =>
         /\ uploadError <=> streamError
         /\ uploadError =>
              u.escaped = "" /\ u.response.detail = LastEvent(st).message
         /\ ~uploadError =>
              /\ LastEvent(st).step = "complete"
              /\ \A fld \in {"original_filename", "total_pages", "pages",
                            "content_hash"} :
                   Val(u.response.body)[fld] = Val(LastEvent(st).data)[fld]

====
